---- MODULE Spec2Model ----
(***************************************************************************)
(* Sum-check protocol of sum_check/src/sum_check_protocol.rs: the plain    *)
(* prover and verifier (prove, verify) and the composed, GKR-style pair    *)
(* (gkr_prove, gkr_verify), each run one loop iteration per step.          *)
(*                                                                         *)
(* The field, the multilinear and composed polynomials, the univariate     *)
(* interpolation and the Fiat-Shamir transcript live in other crates of    *)
(* the repository; they are modelled from their contracts in spec.md       *)
(* sections 3 and 6.  The field Fq (BN254) is replaced by the prime field  *)
(* of FieldModulus elements.  The transcript is the byte string absorbed   *)
(* so far, and its hash is a random oracle filled in lazily: the first     *)
(* query of a transcript state picks any field element, every later query  *)
(* of the same state gets the same answer.                                 *)
(*                                                                         *)
(* A call ends "returned", with its result, or "panicked": a collaborator  *)
(* refused its input (MultilinearPoly::new on a length that is no power of *)
(* two, evaluate on a point with the wrong number of coordinates,          *)
(* partial_evaluate with no variable left) or an index was out of bounds.  *)
(***************************************************************************)
EXTENDS Integers, Sequences, FiniteSets, TLC

\* Number of elements of the prime field standing in for ark_bn254::Fq.
FieldModulus == 3

\* Largest number of variables of an input polynomial.
MaxVars == 2

\* Entries of input evaluation vectors are drawn from 0..MaxEval.
MaxEval == 1

Field == 0 .. (FieldModulus - 1)

Evals == {x \in Field : x <= MaxEval}

-----------------------------------------------------------------------------
(* Field arithmetic *)

FAdd(a, b) == (a + b) % FieldModulus

FSub(a, b) == (a - b + FieldModulus) % FieldModulus

FMul(a, b) == (a * b) % FieldModulus

\* Fq::from(i as u64)
FromU64(i) == i % FieldModulus

FInv(a) == CHOOSE b \in Field : FMul(a, b) = 1

RECURSIVE SumSeq(_)
\* iter().sum() over field elements
SumSeq(s) == IF s = <<>> THEN 0 ELSE FAdd(Head(s), SumSeq(Tail(s)))

RECURSIVE Pow2(_)
Pow2(n) == IF n = 0 THEN 1 ELSE 2 * Pow2(n - 1)

-----------------------------------------------------------------------------
(* MultilinearPoly: an evaluation vector of length 2^num_of_vars *)

IsPowerOfTwo(len) == \E n \in 0 .. len : Pow2(n) = len

\* num_of_vars of MultilinearPoly::new(evaluation), for a length new accepts
NumOfVars(evaluation) == CHOOSE n \in 0 .. Len(evaluation) : Pow2(n) = Len(evaluation)

\* MultilinearPoly::new accepts exactly the vectors whose length is a power of two
NewAccepts(evaluation) == Len(evaluation) >= 1 /\ IsPowerOfTwo(Len(evaluation))

\* partial_evaluate(0, value): the leading variable (first half = 0, second
\* half = 1) is fixed to value; defined for num_of_vars >= 1
PartialEvaluate(evaluation, value) ==
    LET half == Len(evaluation) \div 2
    IN  [i \in 1 .. half |->
            FAdd(evaluation[i], FMul(value, FSub(evaluation[i + half], evaluation[i])))]

RECURSIVE EvaluateFold(_, _)
EvaluateFold(evaluation, point) ==
    IF point = <<>> THEN evaluation[1]
    ELSE EvaluateFold(PartialEvaluate(evaluation, Head(point)), Tail(point))

\* partial_evaluate needs a variable to fix
PartialEvaluateDefined(evaluation) == Len(evaluation) >= 2

\* faulty variant: evaluate takes a point of any length and folds what it is given
EvaluateAnyLength(evaluation, point) == TRUE

\* evaluate(point) is defined when the point has one coordinate per variable
EvaluateDefined(evaluation, point) == Len(point) = NumOfVars(evaluation)

\* evaluate(point): the multilinear extension at point
Evaluate(evaluation, point) == EvaluateFold(evaluation, point)

-----------------------------------------------------------------------------
(* SumPoly: a sequence of terms, each term a sequence of MultilinearPoly    *)
(* factors (evaluation vectors) over the same variables                    *)

RECURSIVE MaxLen(_)
MaxLen(terms) ==
    IF terms = <<>> THEN 0
    ELSE LET rest == MaxLen(Tail(terms))
         IN  IF Len(Head(terms)) > rest THEN Len(Head(terms)) ELSE rest

\* get_degree(): the largest number of factors of a term
GetDegree(composed_poly) == MaxLen(composed_poly)

\* partial_evaluate(value): the leading variable of every factor is fixed
ComposedPartialEvaluate(composed_poly, value) ==
    [t \in 1 .. Len(composed_poly) |->
        [f \in 1 .. Len(composed_poly[t]) |->
            PartialEvaluate(composed_poly[t][f], value)]]

RECURSIVE ProductAt(_, _)
ProductAt(term, i) ==
    IF term = <<>> THEN 1 ELSE FMul(Head(term)[i], ProductAt(Tail(term), i))

RECURSIVE SumOfProductsAt(_, _)
SumOfProductsAt(terms, i) ==
    IF terms = <<>> THEN 0
    ELSE FAdd(ProductAt(Head(terms), i), SumOfProductsAt(Tail(terms), i))

\* reduce(): the evaluation vector of the sum of the products of the factors
Reduce(composed_poly) ==
    [i \in 1 .. Len(composed_poly[1][1]) |-> SumOfProductsAt(composed_poly, i)]

\* num_of_vars of polys[0].evaluation[0]
ComposedNumOfVars(composed_poly) == NumOfVars(composed_poly[1][1])

-----------------------------------------------------------------------------
(* UnivariatePoly: a dense coefficient vector, lowest degree first *)

\* p(x) * (x - a)
PolyMulLinear(p, a) ==
    [i \in 1 .. Len(p) + 1 |->
        FSub(IF i > 1 THEN p[i - 1] ELSE 0,
             FMul(a, IF i <= Len(p) THEN p[i] ELSE 0))]

PolyScale(p, c) == [i \in 1 .. Len(p) |-> FMul(c, p[i])]

PolyAdd(p, q) == [i \in 1 .. Len(p) |-> FAdd(p[i], q[i])]

RECURSIVE BasisNumerator(_, _, _)
\* product of (x - x_k) over k <= upto, k # j
BasisNumerator(points, j, upto) ==
    IF upto = 0 THEN <<1>>
    ELSE IF upto = j THEN BasisNumerator(points, j, upto - 1)
    ELSE PolyMulLinear(BasisNumerator(points, j, upto - 1), points[upto][1])

RECURSIVE BasisDenominator(_, _, _)
\* product of (x_j - x_k) over k <= upto, k # j
BasisDenominator(points, j, upto) ==
    IF upto = 0 THEN 1
    ELSE IF upto = j THEN BasisDenominator(points, j, upto - 1)
    ELSE FMul(BasisDenominator(points, j, upto - 1),
              FSub(points[j][1], points[upto][1]))

RECURSIVE LagrangeSum(_, _)
LagrangeSum(points, j) ==
    IF j = 0 THEN [i \in 1 .. Len(points) |-> 0]
    ELSE PolyAdd(LagrangeSum(points, j - 1),
                 PolyScale(BasisNumerator(points, j, Len(points)),
                           FMul(points[j][2],
                                FInv(BasisDenominator(points, j, Len(points))))))

\* UnivariatePoly::interpolate(points).coefficient: one coefficient per point
Interpolate(points) == LagrangeSum(points, Len(points))

-----------------------------------------------------------------------------
(* Transcript *)

\* fq_vec_to_bytes: each element is serialised to a fixed-width block, the
\* blocks are concatenated; one block here is the element's canonical value
FqVecToBytes(v) == [i \in 1 .. Len(v) |-> v[i] % FieldModulus]

\* Transcript::new()
TranscriptNew == <<>>

\* transcript.append(bytes): the hasher absorbs the bytes after what it holds
Append2(transcript, bytes) == transcript \o bytes

\* transcript.get_random_challenge() may answer r: any value on the first
\* query of this state, the recorded value afterwards
ChallengeIs(orc, transcript, r) ==
    transcript \in DOMAIN orc => orc[transcript] = r

OracleRecord(orc, transcript, r) ==
    [t \in DOMAIN orc \cup {transcript} |-> IF t = transcript THEN r ELSE orc[t]]

-----------------------------------------------------------------------------
(* Inputs *)

\* Forged proofs hold at most num_of_vars + MaxExtraRounds rounds.
MaxExtraRounds == 1

\* Longest forged round vector.
MaxRoundLen == 4

\* MultilinearPoly values over n variables
MLPolys(n) == [1 .. Pow2(n) -> Evals]

Polynomials == UNION {MLPolys(n) : n \in 0 .. MaxVars}

\* Round vectors of a forged proof: every pair over the field, and of the
\* other lengths the vectors with one value first and one value after it
ForgedRounds ==
    [1 .. 2 -> Field]
        \cup {[i \in 1 .. k |-> IF i = 1 THEN a ELSE b] :
                  k \in (1 .. MaxRoundLen) \ {2}, a \in Evals, b \in Evals}

\* A composed polynomial has at most MaxFactors factors, over all its terms.
MaxFactors == 2

RECURSIVE ComposedWith(_, _)
\* sequences of terms over n variables with at most budget factors in all
ComposedWith(n, budget) ==
    {<<>>} \cup
        UNION {{<<term>> \o terms :
                    term \in [1 .. k -> MLPolys(n)],
                    terms \in ComposedWith(n, budget - k)} : k \in 1 .. budget}

ComposedPolys == UNION {ComposedWith(n, MaxFactors) \ {<<>>} : n \in 0 .. MaxVars}

\* gkr_verify is given round vectors and no polynomial
NoComposed == <<>>

\* states of the caller's transcript when the composed sum-check starts
InitialTranscripts == {TranscriptNew, FqVecToBytes(<<1>>)}

VARIABLES
    variant,              \* which pair runs: "plain", "gkr", or "both" (the same
                          \* values through the plain pair, then the composed pair)
    polynomial,           \* evaluation vector of the input MultilinearPoly
    composed,             \* the input SumPoly
    transcript0,          \* the caller's transcript before gkr_prove / gkr_verify
    oracle,               \* transcript states hashed so far, with their challenges
    p_pc,                 \* prove: "idle", "loop", "returned"
    p_transcript,
    p_current_poly,       \* current_poly.evaluation
    p_proof_polynomials,
    p_claimed_sum,
    p_random_challenges,  \* history: the challenges prove's loop derived
    proof,                \* the Proof handed to verify
    origin,               \* where proof comes from: "none", "honest", "sum",
                          \* "element", "truncated", "forged"
    v_pc,                 \* verify: "idle", "loop", "returned", "panicked"
    v_transcript,
    v_current_poly,
    v_random_challenges,
    v_expected_sum,
    v_round,              \* rounds of proof.proof_polynomials consumed
    v_checked,            \* history: expected_sum at each round check passed
    v_result,             \* verify's return value, once v_pc = "returned"
    g_pc,                 \* gkr_prove: "idle", "loop", "returned"
    g_claimed_sum,
    g_transcript,
    g_current_poly,
    g_proof_polynomials,
    g_random_challenges,
    round_polys,          \* gkr_verify's round_polys argument
    gv_claimed_arg,       \* gkr_verify's claimed_sum argument
    gv_origin,            \* "none", "honest", "truncated", "forged", "prefix"
    gv_pc,                \* gkr_verify: "idle", "loop", "returned", "panicked"
    gv_transcript,
    gv_claimed_sum,
    gv_random_challenges,
    gv_round,             \* rounds of round_polys consumed
    gv_result,            \* the GkrVerify returned, once gv_pc = "returned"
    earlier               \* what an earlier run of the prover on the same inputs
                          \* returned, when the prover is run a second time

inputs == <<variant, polynomial, composed, transcript0>>

gkr_prover_vars ==
    <<g_pc, g_claimed_sum, g_transcript, g_current_poly, g_proof_polynomials,
      g_random_challenges>>

gkr_verifier_vars ==
    <<gv_pc, gv_transcript, gv_claimed_sum, gv_random_challenges, gv_round,
      gv_result>>

gkr_vars ==
    <<gkr_prover_vars, round_polys, gv_claimed_arg, gv_origin, gkr_verifier_vars>>

plain_vars ==
    <<p_pc, p_transcript, p_current_poly, p_proof_polynomials,
      p_claimed_sum, p_random_challenges, proof, origin, v_pc, v_transcript, v_current_poly,
      v_random_challenges, v_expected_sum, v_round, v_checked, v_result>>

vars == <<inputs, plain_vars, gkr_vars, oracle, earlier>>

prover_vars ==
    <<p_pc, p_transcript, p_current_poly, p_proof_polynomials, p_claimed_sum,
      p_random_challenges>>

verifier_vars ==
    <<v_pc, v_transcript, v_current_poly, v_random_challenges, v_expected_sum,
      v_round, v_checked, v_result>>

NoProof == [proof_polynomials |-> <<>>, claimed_sum |-> 0]

NoGkrVerify == [verified |-> FALSE, final_claimed_sum |-> 0, random_challenges |-> <<>>]

NoRun ==
    [runs |-> 0, proof_polynomials |-> <<>>, claimed_sum |-> 0,
     random_challenges |-> <<>>, transcript |-> TranscriptNew]

Init ==
    /\ \/ /\ variant = "plain"
          /\ polynomial \in Polynomials
          /\ composed = NoComposed
          /\ transcript0 = TranscriptNew
       \/ /\ variant = "gkr"
          /\ polynomial = <<>>
          /\ composed \in ComposedPolys \cup {NoComposed}
          /\ transcript0 \in InitialTranscripts
       \/ /\ variant = "both"
          /\ polynomial \in Polynomials
          /\ composed = <<<<polynomial>>>>
          /\ transcript0 = TranscriptNew
    /\ g_pc = "idle"
    /\ g_claimed_sum = 0
    /\ g_transcript = TranscriptNew
    /\ g_current_poly = <<>>
    /\ g_proof_polynomials = <<>>
    /\ g_random_challenges = <<>>
    /\ round_polys = <<>>
    /\ gv_claimed_arg = 0
    /\ gv_origin = "none"
    /\ gv_pc = "idle"
    /\ gv_transcript = TranscriptNew
    /\ gv_claimed_sum = 0
    /\ gv_random_challenges = <<>>
    /\ gv_round = 0
    /\ gv_result = NoGkrVerify
    /\ oracle = <<>>
    /\ earlier = NoRun
    /\ p_pc = "idle"
    /\ p_transcript = TranscriptNew
    /\ p_current_poly = <<>>
    /\ p_proof_polynomials = <<>>
    /\ p_claimed_sum = 0
    /\ p_random_challenges = <<>>
    /\ proof = NoProof
    /\ origin = "none"
    /\ v_pc = "idle"
    /\ v_transcript = TranscriptNew
    /\ v_current_poly = <<>>
    /\ v_random_challenges = <<>>
    /\ v_expected_sum = 0
    /\ v_round = 0
    /\ v_checked = <<>>
    /\ v_result = FALSE

-----------------------------------------------------------------------------
(* prove *)

\* faulty variant: the two halves are returned in the wrong order
round_proof_halves_swapped(evaluation) ==
    LET mid_point == Len(evaluation) \div 2
    IN  <<SumSeq(SubSeq(evaluation, mid_point + 1, Len(evaluation))),
          SumSeq(SubSeq(evaluation, 1, mid_point))>>

\* get_round_partial_polynomial_proof
get_round_partial_polynomial_proof(evaluation) ==
    LET mid_point == Len(evaluation) \div 2
        zeros == SubSeq(evaluation, 1, mid_point)
        ones == SubSeq(evaluation, mid_point + 1, Len(evaluation))
    IN  <<SumSeq(zeros), SumSeq(ones)>>

\* prove, up to the loop: the transcript absorbs the evaluations, then the sum
ProveStart ==
    /\ variant \in {"plain", "both"}
    /\ p_pc = "idle"
    /\ origin = "none"
    /\ LET claimed_sum == SumSeq(polynomial)
       IN  /\ p_claimed_sum' = claimed_sum
           /\ p_transcript' =
                  Append2(Append2(TranscriptNew, FqVecToBytes(polynomial)),
                          FqVecToBytes(<<claimed_sum>>))
    /\ p_proof_polynomials' = <<>>
    /\ p_random_challenges' = <<>>
    /\ p_current_poly' = polynomial
    /\ p_pc' = "loop"
    /\ UNCHANGED <<inputs, earlier, gkr_vars, oracle, proof, origin, verifier_vars>>

\* faulty variant: the challenge is derived before the round is absorbed
ProveRoundChallengeFirst ==
    /\ p_pc = "loop"
    /\ Len(p_proof_polynomials) < NumOfVars(polynomial)
    /\ LET proof_poly == get_round_partial_polynomial_proof(p_current_poly)
           absorbed == Append2(p_transcript, FqVecToBytes(proof_poly))
       IN  \E random_challenge \in Field :
               /\ ChallengeIs(oracle, p_transcript, random_challenge)
               /\ oracle' = OracleRecord(oracle, p_transcript, random_challenge)
               /\ p_transcript' = absorbed
               /\ p_proof_polynomials' = Append(p_proof_polynomials, proof_poly)
               /\ p_random_challenges' = Append(p_random_challenges, random_challenge)
               /\ p_current_poly' = PartialEvaluate(p_current_poly, random_challenge)
    /\ UNCHANGED <<inputs, earlier, gkr_vars, p_pc, p_claimed_sum, proof, origin, verifier_vars>>

\* one iteration of prove's loop
ProveRound ==
    /\ p_pc = "loop"
    /\ Len(p_proof_polynomials) < NumOfVars(polynomial)
    /\ LET proof_poly == get_round_partial_polynomial_proof(p_current_poly)
           absorbed == Append2(p_transcript, FqVecToBytes(proof_poly))
       IN  \E random_challenge \in Field :
               /\ ChallengeIs(oracle, absorbed, random_challenge)
               /\ oracle' = OracleRecord(oracle, absorbed, random_challenge)
               /\ p_transcript' = absorbed
               /\ p_proof_polynomials' = Append(p_proof_polynomials, proof_poly)
               /\ p_random_challenges' = Append(p_random_challenges, random_challenge)
               /\ p_current_poly' = PartialEvaluate(p_current_poly, random_challenge)
    /\ UNCHANGED <<inputs, earlier, gkr_vars, p_pc, p_claimed_sum, proof, origin, verifier_vars>>

\* prove returns the Proof
ProveReturn ==
    /\ p_pc = "loop"
    /\ Len(p_proof_polynomials) = NumOfVars(polynomial)
    /\ p_pc' = "returned"
    /\ proof' = [proof_polynomials |-> p_proof_polynomials,
                 claimed_sum |-> p_claimed_sum]
    /\ origin' = "honest"
    /\ UNCHANGED <<inputs, earlier, gkr_vars, oracle, p_transcript, p_current_poly,
                   p_proof_polynomials, p_claimed_sum, p_random_challenges,
                   verifier_vars>>

-----------------------------------------------------------------------------
(* The proof between prover and verifier *)

\* claimed_sum of an honest proof is replaced, the rounds are kept
TamperClaimedSum ==
    /\ origin = "honest"
    /\ v_pc = "idle"
    /\ \E s \in Field \ {proof.claimed_sum} :
           proof' = [proof EXCEPT !.claimed_sum = s]
    /\ origin' = "sum"
    /\ UNCHANGED <<inputs, earlier, gkr_vars, oracle, prover_vars, verifier_vars>>

\* one element of one round of an honest proof is replaced
TamperElement ==
    /\ variant = "plain"
    /\ origin = "honest"
    /\ v_pc = "idle"
    /\ \E i \in 1 .. Len(proof.proof_polynomials), j \in 1 .. 2 :
           \E x \in Field \ {proof.proof_polynomials[i][j]} :
               proof' = [proof EXCEPT !.proof_polynomials[i][j] = x]
    /\ origin' = "element"
    /\ UNCHANGED <<inputs, earlier, gkr_vars, oracle, prover_vars, verifier_vars>>

\* one or more trailing rounds of an honest proof are dropped
TruncateProof ==
    /\ variant = "plain"
    /\ origin = "honest"
    /\ v_pc = "idle"
    /\ \E k \in 0 .. (Len(proof.proof_polynomials) - 1) :
           proof' = [proof EXCEPT !.proof_polynomials = SubSeq(@, 1, k)]
    /\ origin' = "truncated"
    /\ UNCHANGED <<inputs, earlier, gkr_vars, oracle, prover_vars, verifier_vars>>

\* a proof that no prover run produced: any claimed sum, and rounds that are
\* given one at a time, each when verify's loop has read the earlier ones
\* (verify reads proof.proof_polynomials front to back and never looks ahead,
\* so a finished run is the run of verify on the proof as it then stands)
ForgeProof ==
    /\ variant = "plain"
    /\ origin = "none"
    /\ p_pc = "idle"
    /\ \E s \in Field : proof' = [proof_polynomials |-> <<>>, claimed_sum |-> s]
    /\ origin' = "forged"
    /\ UNCHANGED <<inputs, earlier, gkr_vars, oracle, prover_vars, verifier_vars>>

ForgeRound ==
    /\ origin = "forged"
    /\ v_pc = "loop"
    /\ v_round = Len(proof.proof_polynomials)
    /\ Len(proof.proof_polynomials) < NumOfVars(polynomial) + MaxExtraRounds
    /\ \E f \in ForgedRounds :
           proof' = [proof EXCEPT !.proof_polynomials = Append(@, f)]
    /\ UNCHANGED <<inputs, earlier, gkr_vars, oracle, origin, prover_vars, verifier_vars>>

-----------------------------------------------------------------------------
(* verify *)

\* verify, up to the loop
VerifyStart ==
    /\ v_pc = "idle"
    /\ origin # "none"
    /\ v_transcript' =
           Append2(Append2(TranscriptNew, FqVecToBytes(polynomial)),
                   FqVecToBytes(<<proof.claimed_sum>>))
    /\ v_current_poly' = polynomial
    /\ v_random_challenges' = <<>>
    /\ v_expected_sum' = proof.claimed_sum
    /\ v_round' = 0
    /\ v_checked' = <<>>
    /\ v_pc' = "loop"
    /\ UNCHANGED <<inputs, earlier, gkr_vars, oracle, proof, origin, prover_vars, v_result>>

\* faulty variant: the round check is left out
RoundPassesAlways(poly, expected_sum) == TRUE

\* faulty variant: the round check adds entry 0 twice
RoundPassesFirstTwice(poly, expected_sum) == FAdd(poly[1], poly[1]) = expected_sum

\* faulty variant: the round check adds entries 0 and 1 only
RoundPassesFirstTwo(poly, expected_sum) ==
    (IF Len(poly) >= 2 THEN FAdd(poly[1], poly[2]) ELSE poly[1]) = expected_sum

\* the round check of verify's loop
RoundPasses(poly, expected_sum) == SumSeq(poly) = expected_sum

\* the next expected sum of verify's loop
NextExpectedSum(poly, random_challenge) ==
    FAdd(poly[1], FMul(random_challenge, FSub(poly[2], poly[1])))

\* one iteration of verify's loop
VerifyRound ==
    /\ v_pc = "loop"
    /\ v_round < Len(proof.proof_polynomials)
    /\ LET poly == proof.proof_polynomials[v_round + 1]
           absorbed == Append2(v_transcript, FqVecToBytes(poly))
       IN  IF ~NewAccepts(poly)
           THEN \* MultilinearPoly::new fails
                /\ v_pc' = "panicked"
                /\ UNCHANGED <<oracle, v_transcript, v_current_poly,
                               v_random_challenges, v_expected_sum, v_round,
                               v_checked, v_result>>
           ELSE IF ~RoundPasses(poly, v_expected_sum)
           THEN \* return false
                /\ v_pc' = "returned"
                /\ v_result' = FALSE
                /\ UNCHANGED <<oracle, v_transcript, v_current_poly,
                               v_random_challenges, v_expected_sum, v_round,
                               v_checked>>
           ELSE \E random_challenge \in Field :
                /\ ChallengeIs(oracle, absorbed, random_challenge)
                /\ oracle' = OracleRecord(oracle, absorbed, random_challenge)
                /\ v_transcript' = absorbed
                /\ v_checked' = Append(v_checked, v_expected_sum)
                /\ IF Len(poly) < 2 \/ ~PartialEvaluateDefined(v_current_poly)
                   THEN \* poly.evaluation[1] is out of bounds, or
                        \* partial_evaluate has no variable left to fix
                        /\ v_pc' = "panicked"
                        /\ UNCHANGED <<v_current_poly, v_random_challenges,
                                       v_expected_sum, v_round, v_result>>
                   ELSE /\ v_expected_sum' = NextExpectedSum(poly, random_challenge)
                        /\ v_current_poly' =
                               PartialEvaluate(v_current_poly, random_challenge)
                        /\ v_random_challenges' =
                               Append(v_random_challenges, random_challenge)
                        /\ v_round' = v_round + 1
                        /\ UNCHANGED <<v_pc, v_result>>
    /\ UNCHANGED <<inputs, earlier, gkr_vars, proof, origin, prover_vars>>

\* faulty variant: the final check is left out
FinalCheckAlways(evaluation, random_challenges, expected_sum) == TRUE

\* the final check of verify
FinalCheck(evaluation, random_challenges, expected_sum) ==
    expected_sum = Evaluate(evaluation, random_challenges)

\* verify after the loop
VerifyReturn ==
    /\ v_pc = "loop"
    /\ v_round = Len(proof.proof_polynomials)
    /\ IF ~EvaluateDefined(polynomial, v_random_challenges)
       THEN /\ v_pc' = "panicked"
            /\ UNCHANGED v_result
       ELSE /\ v_pc' = "returned"
            /\ v_result' = FinalCheck(polynomial, v_random_challenges, v_expected_sum)
    /\ UNCHANGED <<inputs, earlier, gkr_vars, oracle, proof, origin, prover_vars, v_transcript,
                   v_current_poly, v_random_challenges, v_expected_sum, v_round,
                   v_checked>>

-----------------------------------------------------------------------------
(* gkr_prove *)

\* faulty variant: the round polynomial is sampled at 0..degree, one point more
round_proof_gkr_one_more_sample(composed_poly) ==
    LET degree == GetDegree(composed_poly)
        poly_proof ==
            [i \in 1 .. degree + 1 |->
                SumSeq(Reduce(ComposedPartialEvaluate(composed_poly, FromU64(i - 1))))]
        points == [i \in 1 .. degree + 1 |-> <<FromU64(i - 1), poly_proof[i]>>]
    IN  Interpolate(points)

\* get_round_partial_polynomial_proof_gkr
get_round_partial_polynomial_proof_gkr(composed_poly) ==
    LET degree == GetDegree(composed_poly)
        poly_proof ==
            [i \in 1 .. degree |->
                SumSeq(Reduce(ComposedPartialEvaluate(composed_poly, FromU64(i - 1))))]
        points == [i \in 1 .. degree |-> <<FromU64(i - 1), poly_proof[i]>>]
    IN  Interpolate(points)

\* the composed pair runs on its own, or after the plain pair has finished
GkrMayRun ==
    \/ variant = "gkr"
    \/ variant = "both" /\ v_pc \in {"returned", "panicked"}

\* faulty variant: gkr_prove absorbs the claimed sum before the first round
GkrProveStartAbsorbsSum ==
    /\ GkrMayRun
    /\ composed # NoComposed
    /\ g_pc = "idle"
    /\ \E claimed_sum \in Field :
           /\ variant = "both" => claimed_sum = proof.claimed_sum
           /\ g_claimed_sum' = claimed_sum
           /\ g_transcript' = Append2(transcript0, FqVecToBytes(<<claimed_sum>>))
    /\ g_current_poly' = composed
    /\ g_proof_polynomials' = <<>>
    /\ g_random_challenges' = <<>>
    /\ g_pc' = "loop"
    /\ UNCHANGED <<inputs, earlier, plain_vars, oracle, round_polys, gv_claimed_arg,
                   gv_origin, gkr_verifier_vars>>

\* gkr_prove, up to the loop; any claimed_sum may be passed
GkrProveStart ==
    /\ GkrMayRun
    /\ composed # NoComposed
    /\ g_pc = "idle"
    /\ \E claimed_sum \in Field :
           /\ variant = "both" => claimed_sum = proof.claimed_sum
           /\ g_claimed_sum' = claimed_sum
    /\ g_transcript' = transcript0
    /\ g_current_poly' = composed
    /\ g_proof_polynomials' = <<>>
    /\ g_random_challenges' = <<>>
    /\ g_pc' = "loop"
    /\ UNCHANGED <<inputs, earlier, plain_vars, oracle, round_polys, gv_claimed_arg,
                   gv_origin, gkr_verifier_vars>>

\* faulty variant: the challenge is drawn at random, not from the transcript
GkrProveRoundRandomChallenge ==
    /\ g_pc = "loop"
    /\ Len(g_proof_polynomials) < ComposedNumOfVars(composed)
    /\ LET proof_poly == get_round_partial_polynomial_proof_gkr(g_current_poly)
           absorbed == Append2(g_transcript, FqVecToBytes(proof_poly))
       IN  \E random_challenge \in Field :
               /\ g_transcript' = absorbed
               /\ g_proof_polynomials' = Append(g_proof_polynomials, proof_poly)
               /\ g_random_challenges' = Append(g_random_challenges, random_challenge)
               /\ g_current_poly' =
                      ComposedPartialEvaluate(g_current_poly, random_challenge)
    /\ UNCHANGED <<inputs, earlier, plain_vars, oracle, g_pc, g_claimed_sum,
                   round_polys, gv_claimed_arg, gv_origin, gkr_verifier_vars>>

\* one iteration of gkr_prove's loop
GkrProveRound ==
    /\ g_pc = "loop"
    /\ Len(g_proof_polynomials) < ComposedNumOfVars(composed)
    /\ LET proof_poly == get_round_partial_polynomial_proof_gkr(g_current_poly)
           absorbed == Append2(g_transcript, FqVecToBytes(proof_poly))
       IN  \E random_challenge \in Field :
               /\ ChallengeIs(oracle, absorbed, random_challenge)
               /\ oracle' = OracleRecord(oracle, absorbed, random_challenge)
               /\ g_transcript' = absorbed
               /\ g_proof_polynomials' = Append(g_proof_polynomials, proof_poly)
               /\ g_random_challenges' = Append(g_random_challenges, random_challenge)
               /\ g_current_poly' =
                      ComposedPartialEvaluate(g_current_poly, random_challenge)
    /\ UNCHANGED <<inputs, earlier, plain_vars, g_pc, g_claimed_sum, round_polys,
                   gv_claimed_arg, gv_origin, gkr_verifier_vars>>

\* gkr_prove returns the GkrProof; its rounds and claimed sum go to gkr_verify
GkrProveReturn ==
    /\ g_pc = "loop"
    /\ Len(g_proof_polynomials) = ComposedNumOfVars(composed)
    /\ g_pc' = "returned"
    /\ round_polys' = g_proof_polynomials
    /\ gv_claimed_arg' = g_claimed_sum
    /\ gv_origin' = "honest"
    /\ UNCHANGED <<inputs, earlier, plain_vars, oracle, g_claimed_sum, g_transcript,
                   g_current_poly, g_proof_polynomials, g_random_challenges,
                   gkr_verifier_vars>>

-----------------------------------------------------------------------------
(* The round vectors between gkr_prove and gkr_verify *)

\* one or more trailing rounds of gkr_prove's rounds are dropped
GkrTruncate ==
    /\ variant = "gkr"
    /\ gv_origin = "honest"
    /\ gv_pc = "idle"
    /\ \E k \in 0 .. (Len(round_polys) - 1) : round_polys' = SubSeq(round_polys, 1, k)
    /\ gv_origin' = "truncated"
    /\ UNCHANGED <<inputs, earlier, plain_vars, oracle, gkr_prover_vars, gv_claimed_arg,
                   gkr_verifier_vars>>

\* round vectors that no prover run produced, given one at a time as the
\* loop of gkr_verify reads them
GkrForge ==
    /\ variant = "gkr"
    /\ composed = NoComposed
    /\ gv_origin = "none"
    /\ \E s \in Field : gv_claimed_arg' = s
    /\ round_polys' = <<>>
    /\ gv_origin' = "forged"
    /\ UNCHANGED <<inputs, earlier, plain_vars, oracle, gkr_prover_vars, gkr_verifier_vars>>

GkrForgeRound ==
    /\ gv_origin = "forged"
    /\ gv_pc = "loop"
    /\ gv_round = Len(round_polys)
    /\ Len(round_polys) < MaxVars + MaxExtraRounds
    /\ \E f \in ForgedRounds : round_polys' = Append(round_polys, f)
    /\ UNCHANGED <<inputs, earlier, plain_vars, oracle, gkr_prover_vars, gv_claimed_arg,
                   gv_origin, gkr_verifier_vars>>

-----------------------------------------------------------------------------
(* gkr_verify *)

\* gkr_verify, up to the loop
GkrVerifyStart ==
    /\ gv_pc = "idle"
    /\ gv_origin # "none"
    /\ gv_transcript' = transcript0
    /\ gv_claimed_sum' = gv_claimed_arg
    /\ gv_random_challenges' = <<>>
    /\ gv_round' = 0
    /\ gv_pc' = "loop"
    /\ UNCHANGED <<inputs, earlier, plain_vars, oracle, gkr_prover_vars, round_polys,
                   gv_claimed_arg, gv_origin, gv_result>>

\* the round check of gkr_verify's loop
GkrRoundPasses(poly, claimed_sum) ==
    FAdd(Evaluate(poly, <<FromU64(0)>>), Evaluate(poly, <<FromU64(1)>>)) = claimed_sum

\* faulty variant: the rejection carries no placeholder challenge
GkrRejectedNoPlaceholder ==
    [verified |-> FALSE, final_claimed_sum |-> FromU64(0), random_challenges |-> <<>>]

\* what gkr_verify returns at a failed round check
GkrRejected ==
    [verified |-> FALSE, final_claimed_sum |-> FromU64(0),
     random_challenges |-> <<FromU64(0)>>]

\* faulty variant: the next claimed sum is the round vector at 0, not at r_c
GkrNextClaimedSumAtZero(poly, r_c) == Evaluate(poly, <<FromU64(0)>>)

\* the next claimed sum of gkr_verify's loop
GkrNextClaimedSum(poly, r_c) == Evaluate(poly, <<r_c>>)

\* one iteration of gkr_verify's loop
GkrVerifyRound ==
    /\ gv_pc = "loop"
    /\ gv_round < Len(round_polys)
    /\ LET poly == round_polys[gv_round + 1]
           absorbed == Append2(gv_transcript, FqVecToBytes(poly))
       IN  IF ~NewAccepts(poly) \/ ~EvaluateDefined(poly, <<FromU64(0)>>)
           THEN \* MultilinearPoly::new fails, or evaluate is given one
                \* coordinate for a polynomial that has not one variable
                /\ gv_pc' = "panicked"
                /\ UNCHANGED <<oracle, gv_transcript, gv_claimed_sum,
                               gv_random_challenges, gv_round, gv_result>>
           ELSE IF ~GkrRoundPasses(poly, gv_claimed_sum)
           THEN /\ gv_pc' = "returned"
                /\ gv_result' = GkrRejected
                /\ UNCHANGED <<oracle, gv_transcript, gv_claimed_sum,
                               gv_random_challenges, gv_round>>
           ELSE \E r_c \in Field :
                /\ ChallengeIs(oracle, absorbed, r_c)
                /\ oracle' = OracleRecord(oracle, absorbed, r_c)
                /\ gv_transcript' = absorbed
                /\ gv_random_challenges' = Append(gv_random_challenges, r_c)
                /\ gv_claimed_sum' = GkrNextClaimedSum(poly, r_c)
                /\ gv_round' = gv_round + 1
                /\ UNCHANGED <<gv_pc, gv_result>>
    /\ UNCHANGED <<inputs, earlier, plain_vars, gkr_prover_vars, round_polys,
                   gv_claimed_arg, gv_origin>>

\* faulty variant: a round list without rounds is not accepted
GkrVerifyReturnNeedsRound ==
    /\ gv_pc = "loop"
    /\ gv_round = Len(round_polys)
    /\ gv_pc' = "returned"
    /\ gv_result' = [verified |-> gv_round >= 1, final_claimed_sum |-> gv_claimed_sum,
                     random_challenges |-> gv_random_challenges]
    /\ UNCHANGED <<inputs, earlier, plain_vars, oracle, gkr_prover_vars, round_polys,
                   gv_claimed_arg, gv_origin, gv_transcript, gv_claimed_sum,
                   gv_random_challenges, gv_round>>

\* gkr_verify after the loop
GkrVerifyReturn ==
    /\ gv_pc = "loop"
    /\ gv_round = Len(round_polys)
    /\ gv_pc' = "returned"
    /\ gv_result' = [verified |-> TRUE, final_claimed_sum |-> gv_claimed_sum,
                     random_challenges |-> gv_random_challenges]
    /\ UNCHANGED <<inputs, earlier, plain_vars, oracle, gkr_prover_vars, round_polys,
                   gv_claimed_arg, gv_origin, gv_transcript, gv_claimed_sum,
                   gv_random_challenges, gv_round>>

-----------------------------------------------------------------------------
(* The prover run a second time on the same inputs *)

\* prove has returned; its Proof is kept and prove is called again on the
\* same polynomial
ProveAgain ==
    /\ variant = "plain"
    /\ earlier.runs = 0
    /\ p_pc = "returned"
    /\ origin = "honest"
    /\ v_pc = "idle"
    /\ earlier' = [runs |-> 1,
                   proof_polynomials |-> proof.proof_polynomials,
                   claimed_sum |-> proof.claimed_sum,
                   random_challenges |-> p_random_challenges,
                   transcript |-> p_transcript]
    /\ p_pc' = "idle"
    /\ proof' = NoProof
    /\ origin' = "none"
    /\ UNCHANGED <<inputs, gkr_vars, oracle, p_transcript, p_current_poly,
                   p_proof_polynomials, p_claimed_sum, p_random_challenges,
                   verifier_vars>>

\* gkr_prove has returned; its GkrProof and the caller's transcript are kept
\* and gkr_prove is called again on the same composed polynomial with a
\* transcript in the same initial state
GkrProveAgain ==
    /\ variant = "gkr"
    /\ earlier.runs = 0
    /\ g_pc = "returned"
    /\ gv_origin = "honest"
    /\ gv_pc = "idle"
    /\ earlier' = [runs |-> 1,
                   proof_polynomials |-> g_proof_polynomials,
                   claimed_sum |-> g_claimed_sum,
                   random_challenges |-> g_random_challenges,
                   transcript |-> g_transcript]
    /\ g_pc' = "idle"
    /\ round_polys' = <<>>
    /\ gv_claimed_arg' = 0
    /\ gv_origin' = "none"
    /\ UNCHANGED <<inputs, plain_vars, oracle, g_claimed_sum, g_transcript,
                   g_current_poly, g_proof_polynomials, g_random_challenges,
                   gkr_verifier_vars>>

\* gkr_verify has returned verified = true; its result is kept and it is
\* called again on an initial part of the same round vectors, with the same
\* claimed sum and a transcript in the same state
GkrVerifyPrefix ==
    /\ variant = "gkr"
    /\ earlier.runs = 0
    /\ gv_pc = "returned"
    /\ gv_result.verified
    /\ gv_origin # "prefix"
    /\ earlier' = [runs |-> 1,
                   proof_polynomials |-> round_polys,
                   claimed_sum |-> gv_claimed_arg,
                   random_challenges |-> gv_result.random_challenges,
                   transcript |-> gv_transcript]
    /\ \E k \in 0 .. (Len(round_polys) - 1) : round_polys' = SubSeq(round_polys, 1, k)
    /\ gv_origin' = "prefix"
    /\ gv_pc' = "idle"
    /\ UNCHANGED <<inputs, plain_vars, oracle, gkr_prover_vars, gv_claimed_arg,
                   gv_transcript, gv_claimed_sum, gv_random_challenges, gv_round,
                   gv_result>>

-----------------------------------------------------------------------------

Next ==
    \/ ProveStart
    \/ ProveRound
    \/ ProveReturn
    \/ TamperClaimedSum
    \/ TamperElement
    \/ TruncateProof
    \/ ForgeProof
    \/ ForgeRound
    \/ VerifyStart
    \/ VerifyRound
    \/ VerifyReturn
    \/ GkrProveStart
    \/ GkrProveRound
    \/ GkrProveReturn
    \/ GkrTruncate
    \/ GkrForge
    \/ GkrForgeRound
    \/ GkrVerifyStart
    \/ GkrVerifyRound
    \/ GkrVerifyReturn
    \/ ProveAgain
    \/ GkrProveAgain
    \/ GkrVerifyPrefix

Spec == Init /\ [][Next]_vars

\* the plain pair alone
NextPlain ==
    \/ ProveStart
    \/ ProveRound
    \/ ProveReturn
    \/ TamperClaimedSum
    \/ TamperElement
    \/ TruncateProof
    \/ ForgeProof
    \/ ForgeRound
    \/ VerifyStart
    \/ VerifyRound
    \/ VerifyReturn

InitPlain == Init /\ variant = "plain"

SpecPlain == InitPlain /\ [][NextPlain]_vars

\* the composed pair alone
NextGkr ==
    \/ GkrProveStart
    \/ GkrProveRound
    \/ GkrProveReturn
    \/ GkrTruncate
    \/ GkrForge
    \/ GkrForgeRound
    \/ GkrVerifyStart
    \/ GkrVerifyRound
    \/ GkrVerifyReturn

InitGkr == Init /\ variant = "gkr"

SpecGkr == InitGkr /\ [][NextGkr]_vars

\* the same values through the plain pair, then as a one-factor composed
\* polynomial through the composed pair
NextBoth ==
    \/ ProveStart
    \/ ProveRound
    \/ ProveReturn
    \/ TamperClaimedSum
    \/ VerifyStart
    \/ VerifyRound
    \/ VerifyReturn
    \/ GkrProveStart
    \/ GkrProveRound
    \/ GkrProveReturn
    \/ GkrVerifyStart
    \/ GkrVerifyRound
    \/ GkrVerifyReturn

InitBoth == Init /\ variant = "both"

SpecBoth == InitBoth /\ [][NextBoth]_vars

\* the composed pair, and gkr_verify again on a part of what it accepted
NextGkrPrefix ==
    \/ NextGkr
    \/ GkrVerifyPrefix

SpecGkrPrefix == InitGkr /\ [][NextGkrPrefix]_vars

\* each pair on its own inputs, or both pairs on the same values
NextPairs ==
    \/ NextPlain
    \/ NextGkr

SpecPairs == Init /\ [][NextPairs]_vars

\* each prover run twice on the same inputs, no verifier
NextTwice ==
    \/ ProveStart
    \/ ProveRound
    \/ ProveReturn
    \/ ProveAgain
    \/ GkrProveStart
    \/ GkrProveRound
    \/ GkrProveReturn
    \/ GkrProveAgain

InitTwice == Init /\ variant \in {"plain", "gkr"} /\ (variant = "gkr" => composed # NoComposed)

SpecTwice == InitTwice /\ [][NextTwice]_vars

-----------------------------------------------------------------------------
(* Properties *)

VerifyEnded == v_pc \in {"returned", "panicked"}

VerifyAccepted == v_pc = "returned" /\ v_result = TRUE

GkrVerifyEnded == gv_pc \in {"returned", "panicked"}

GkrVerifyAccepted == gv_pc = "returned" /\ gv_result.verified = TRUE

\* the sum of the composed polynomial over the boolean hypercube
TrueSum(composed_poly) == SumSeq(Reduce(composed_poly))

\* C1: plain completeness. verify(P, prove(P)) returns true for every
\* multilinear P with at least one variable.
C1_PlainCompleteness ==
    (origin = "honest" /\ VerifyEnded) => VerifyAccepted

C1_Witness ==
    /\ origin = "honest"
    /\ VerifyAccepted
    /\ Len(proof.proof_polynomials) >= 2
    /\ \E i \in 1 .. Len(v_random_challenges) : v_random_challenges[i] \notin {0, 1}

\* C2: composed completeness. gkr_verify on the rounds of gkr_prove for the
\* true sum, from the same transcript state, returns verified = true.
C2_ComposedCompleteness ==
    (gv_origin = "honest" /\ g_claimed_sum = TrueSum(composed) /\ GkrVerifyEnded)
        => GkrVerifyAccepted

\* C3: a tampered claimed sum is rejected. verify returns false on prove(P)
\* with claimed_sum replaced by any other value.
C3_TamperedSumRejected ==
    (origin = "sum" /\ VerifyEnded) => (v_pc = "returned" /\ v_result = FALSE)

C3_Witness ==
    /\ origin = "sum"
    /\ v_pc = "returned"
    /\ v_result = FALSE
    /\ Len(proof.proof_polynomials) >= 2

\* C4: single-element tampering is rejected. verify returns false on prove(P)
\* with one element of one round replaced by any other value.
C4_TamperedElementRejected ==
    (origin = "element" /\ VerifyEnded) => (v_pc = "returned" /\ v_result = FALSE)

C4_Witness ==
    /\ origin = "element"
    /\ v_pc = "returned"
    /\ v_result = FALSE
    /\ v_round >= 1

\* C5: round count, plain variant. Whenever verify returns true the proof has
\* one round per variable of P; a proof of prove(P) with trailing rounds
\* dropped is not accepted.
C5_AcceptedRoundCount ==
    /\ VerifyAccepted => Len(proof.proof_polynomials) = NumOfVars(polynomial)
    /\ (origin = "truncated" /\ VerifyEnded) => ~VerifyAccepted

C5_Witness ==
    /\ origin = "truncated"
    /\ VerifyEnded
    /\ v_round >= 1
    /\ v_round = Len(proof.proof_polynomials)

\* C6: round count, composed variant. Whenever gkr_verify returns verified =
\* true for round vectors of a composed polynomial Q, there is one round vector
\* per variable of Q; gkr_prove's rounds with trailing rounds dropped are
\* rejected.
C6_GkrAcceptedRoundCount ==
    (composed # NoComposed /\ GkrVerifyAccepted)
        => Len(round_polys) = ComposedNumOfVars(composed)

\* C7: linear round check. Every round that verify lets pass, of any length
\* MultilinearPoly::new accepts from two entries on, satisfies
\* v0 + v1 = expected running sum.
C7_PassedRoundIsLinear ==
    \A i \in 1 .. Len(v_checked) :
        LET poly == proof.proof_polynomials[i]
        IN  (NewAccepts(poly) /\ Len(poly) >= 2)
                => FAdd(poly[1], poly[2]) = v_checked[i]

\* C8: a round mismatch rejects. When the entries of the round that verify
\* reads next (a vector MultilinearPoly::new accepts) do not sum to the
\* expected running sum, verify returns false in that iteration, whatever
\* rounds follow.
C8_RoundMismatchRejects ==
    [][(/\ v_pc = "loop"
        /\ v_round < Len(proof.proof_polynomials)
        /\ NewAccepts(proof.proof_polynomials[v_round + 1])
        /\ SumSeq(proof.proof_polynomials[v_round + 1]) # v_expected_sum)
       => (v_pc' = "returned" /\ v_result' = FALSE)]_vars

C8_Witness ==
    /\ v_pc = "returned"
    /\ v_result = FALSE
    /\ v_round + 1 < Len(proof.proof_polynomials)
    /\ SumSeq(proof.proof_polynomials[v_round + 1]) # v_expected_sum

\* C9: composed/plain equivalence at degree 1. The one-factor composed
\* polynomial of P is accepted by gkr_prove then gkr_verify exactly when
\* prove then verify accepts P, for the true and for a tampered claimed sum.
C9_DegreeOneEquivalence ==
    (VerifyEnded /\ GkrVerifyEnded) => (VerifyAccepted <=> GkrVerifyAccepted)

\* C10: gkr_verify fails fast. At a round with f(0) + f(1) different from the
\* current claimed sum, gkr_verify returns in that iteration verified = false,
\* final_claimed_sum = 0 and random_challenges = [0], and neither absorbs the
\* round nor derives a challenge.
C10_GkrFailFast ==
    [][(/\ gv_pc = "loop"
        /\ gv_round < Len(round_polys)
        /\ NewAccepts(round_polys[gv_round + 1])
        /\ EvaluateDefined(round_polys[gv_round + 1], <<0>>)
        /\ FAdd(Evaluate(round_polys[gv_round + 1], <<0>>),
                Evaluate(round_polys[gv_round + 1], <<1>>)) # gv_claimed_sum)
       => (/\ gv_pc' = "returned"
           /\ gv_result' = [verified |-> FALSE, final_claimed_sum |-> 0,
                            random_challenges |-> <<0>>]
           /\ gv_transcript' = gv_transcript
           /\ oracle' = oracle)]_vars

C10_Witness ==
    /\ gv_pc = "returned"
    /\ gv_result.verified = FALSE
    /\ gv_result.random_challenges = <<0>>
    /\ gv_round >= 1
    /\ gv_random_challenges[1] # 0

RECURSIVE GkrAbsorbed(_)
\* the transcript of gkr_verify after it has absorbed rounds 1..i
GkrAbsorbed(i) ==
    IF i = 0 THEN transcript0
    ELSE Append2(GkrAbsorbed(i - 1), FqVecToBytes(round_polys[i]))

\* the challenge the transcript gives after round i is absorbed
GkrChallengeOf(i) == oracle[GkrAbsorbed(i)]

\* round i's vector at challenge i; the claimed sum argument before round 1
GkrReducedSum(i) ==
    IF i = 0 THEN gv_claimed_arg
    ELSE Evaluate(round_polys[i], <<GkrChallengeOf(i)>>)

RECURSIVE GkrRoundsPass(_)
\* rounds 1..i each have f(0) + f(1) equal to the sum reduced so far
GkrRoundsPass(i) ==
    IF i = 0 THEN TRUE
    ELSE /\ GkrRoundsPass(i - 1)
         /\ NewAccepts(round_polys[i])
         /\ EvaluateDefined(round_polys[i], <<0>>)
         /\ FAdd(Evaluate(round_polys[i], <<0>>), Evaluate(round_polys[i], <<1>>))
                = GkrReducedSum(i - 1)

\* C11: gkr_verify's accept result. When every round passes its f(0) + f(1)
\* check, gkr_verify returns verified = true, one challenge per round vector
\* in round order, and final_claimed_sum = the last round vector at the last
\* challenge; inside the loop the claimed sum checked next is the round
\* vector just read, evaluated at the challenge just derived.
C11_GkrAcceptResult ==
    /\ (gv_pc = "returned" /\ GkrRoundsPass(Len(round_polys)))
           => gv_result =
                  [verified |-> TRUE,
                   final_claimed_sum |-> GkrReducedSum(Len(round_polys)),
                   random_challenges |->
                       [i \in 1 .. Len(round_polys) |-> GkrChallengeOf(i)]]
    /\ (gv_pc = "loop" /\ gv_round >= 1)
           => gv_claimed_sum =
                  Evaluate(round_polys[gv_round], <<gv_random_challenges[gv_round]>>)

C11_Witness ==
    /\ GkrVerifyAccepted
    /\ Len(round_polys) >= 2
    /\ gv_result.random_challenges[1] \notin {0, 1}
    /\ gv_result.final_claimed_sum # gv_claimed_arg
    /\ Evaluate(round_polys[1], <<gv_result.random_challenges[1]>>)
           # Evaluate(round_polys[1], <<0>>)

\* s is an initial segment of t
IsPrefix(s, t) == Len(s) <= Len(t) /\ s = SubSeq(t, 1, Len(s))

\* C12: prover/verifier challenge agreement. From the same transcript state,
\* the challenge the verifier derives in each round it reaches is the one the
\* prover derived in that round: in verify(P, prove(P)) for all n rounds, and
\* in gkr_verify on gkr_prove's rounds for every round passed, so that an
\* accepting GkrVerify carries GkrProof's random_challenges.
C12_ChallengeAgreement ==
    /\ origin = "honest" =>
           /\ IsPrefix(v_random_challenges, p_random_challenges)
           /\ VerifyEnded => v_random_challenges = p_random_challenges
    /\ gv_origin = "honest" =>
           /\ IsPrefix(gv_random_challenges, g_random_challenges)
           /\ GkrVerifyAccepted => gv_result.random_challenges = g_random_challenges

C12_Witness ==
    /\ gv_origin = "honest"
    /\ GkrVerifyAccepted
    /\ Len(g_random_challenges) >= 2
    /\ round_polys[1] # <<0, 0>>
    /\ gv_result.random_challenges[1] \notin {0, 1}

\* C13: determinism. Two runs of prove on the same polynomial return the
\* same Proof; two runs of gkr_prove on the same claimed sum and composed
\* polynomial, from transcripts in the same initial state, return the same
\* proof_polynomials and the same random_challenges (the second run repeats
\* the first round by round).
C13_ProverDeterminism ==
    /\ (variant = "plain" /\ earlier.runs = 1 /\ p_pc \in {"loop", "returned"}) =>
           /\ IsPrefix(p_proof_polynomials, earlier.proof_polynomials)
           /\ p_claimed_sum = earlier.claimed_sum
           /\ p_pc = "returned" =>
                  proof = [proof_polynomials |-> earlier.proof_polynomials,
                           claimed_sum |-> earlier.claimed_sum]
    /\ (variant = "gkr" /\ earlier.runs = 1 /\ g_pc \in {"loop", "returned"}
           /\ g_claimed_sum = earlier.claimed_sum) =>
           /\ IsPrefix(g_proof_polynomials, earlier.proof_polynomials)
           /\ IsPrefix(g_random_challenges, earlier.random_challenges)
           /\ g_pc = "returned" =>
                  /\ g_proof_polynomials = earlier.proof_polynomials
                  /\ g_random_challenges = earlier.random_challenges

C13_Witness ==
    /\ variant = "gkr"
    /\ earlier.runs = 1
    /\ g_pc = "returned"
    /\ g_claimed_sum = earlier.claimed_sum
    /\ Len(g_proof_polynomials) >= 2
    /\ GetDegree(composed) >= 2
    /\ g_random_challenges[1] \notin {0, 1}
    /\ g_proof_polynomials[2] # g_proof_polynomials[1]

RECURSIVE CurrentPolyAfter(_)
\* prove's current_poly after i iterations of its loop
CurrentPolyAfter(i) ==
    IF i = 0 THEN polynomial
    ELSE PartialEvaluate(CurrentPolyAfter(i - 1), p_random_challenges[i])

\* C14: shape of the honest plain proof. prove(P) returns claimed_sum = the
\* sum of P's evaluation vector and one round per variable, each of two
\* entries: the sums of the first and of the second half of the current
\* evaluation vector. Round 0's pair sums to claimed_sum; every later pair
\* sums to v0 + r * (v1 - v0) of the pair before it at that round's
\* challenge r.
C14_HonestProofShape ==
    (origin = "honest" /\ p_pc = "returned") =>
        LET rounds == proof.proof_polynomials
        IN  /\ proof.claimed_sum = SumSeq(polynomial)
            /\ Len(rounds) = NumOfVars(polynomial)
            /\ \A i \in 1 .. Len(rounds) :
                   LET current == CurrentPolyAfter(i - 1)
                       half == Len(current) \div 2
                   IN  /\ Len(rounds[i]) = 2
                       /\ rounds[i][1] = SumSeq(SubSeq(current, 1, half))
                       /\ rounds[i][2] = SumSeq(SubSeq(current, half + 1, Len(current)))
                       /\ FAdd(rounds[i][1], rounds[i][2]) =
                              IF i = 1 THEN proof.claimed_sum
                              ELSE FAdd(rounds[i - 1][1],
                                        FMul(p_random_challenges[i - 1],
                                             FSub(rounds[i - 1][2], rounds[i - 1][1])))

C14_Witness ==
    /\ origin = "honest"
    /\ p_pc = "returned"
    /\ Len(proof.proof_polynomials) >= 2
    /\ p_random_challenges[1] \notin {0, 1}
    /\ proof.proof_polynomials[1][1] # proof.proof_polynomials[1][2]
    /\ proof.proof_polynomials[2] # proof.proof_polynomials[1]
    /\ proof.claimed_sum # 0

RECURSIVE PolyEval(_, _)
\* the value at x of the polynomial with these coefficients, lowest first
PolyEval(coefficient, x) ==
    IF coefficient = <<>> THEN 0
    ELSE FAdd(Head(coefficient), FMul(x, PolyEval(Tail(coefficient), x)))

\* the current composed polynomial with its leading variable fixed to x,
\* summed over the remaining hypercube
RoundSample(composed_poly, x) ==
    SumSeq(Reduce(ComposedPartialEvaluate(composed_poly, x)))

\* C15: construction of the composed round polynomial. In every round
\* gkr_prove samples the current composed polynomial at exactly the d points
\* 0 .. d-1 of its leading variable (d = get_degree()), each sample summed
\* over the remaining hypercube; the round's entry is the coefficient vector
\* of the interpolation through exactly those d samples; the entry is
\* absorbed into the transcript before the challenge is derived, and the
\* challenge then fixes the leading variable.
C15_GkrRoundConstruction ==
    [][(g_pc = "loop" /\ Len(g_proof_polynomials') = Len(g_proof_polynomials) + 1)
       => LET entry == g_proof_polynomials'[Len(g_proof_polynomials')]
              d == GetDegree(g_current_poly)
              r == g_random_challenges'[Len(g_random_challenges')]
          IN  /\ Len(entry) = d
              /\ \A k \in 0 .. (d - 1) :
                     PolyEval(entry, FromU64(k)) = RoundSample(g_current_poly, FromU64(k))
              /\ g_transcript' = Append2(g_transcript, FqVecToBytes(entry))
              /\ g_transcript' \in DOMAIN oracle'
              /\ r = oracle'[g_transcript']
              /\ Len(g_random_challenges') = Len(g_proof_polynomials')
              /\ g_current_poly' = ComposedPartialEvaluate(g_current_poly, r)]_vars

C15_Witness ==
    /\ g_pc = "loop"
    /\ Len(g_proof_polynomials) = 2
    /\ GetDegree(composed) = 2
    /\ Len(composed) = 1
    /\ g_random_challenges[1] \notin {0, 1}
    /\ g_proof_polynomials[2][2] # 0
    /\ g_proof_polynomials[2] # g_proof_polynomials[1]

RECURSIVE VerifyAbsorbed(_)
\* the transcript of verify after it has absorbed rounds 1..i
VerifyAbsorbed(i) ==
    IF i = 0
    THEN Append2(Append2(TranscriptNew, FqVecToBytes(polynomial)),
                 FqVecToBytes(<<proof.claimed_sum>>))
    ELSE Append2(VerifyAbsorbed(i - 1), FqVecToBytes(proof.proof_polynomials[i]))

\* verify's expected sum after round i, at the challenge derived in round i
ExpectedAfter(i) ==
    IF i = 0 THEN proof.claimed_sum
    ELSE LET poly == proof.proof_polynomials[i]
             r == oracle[VerifyAbsorbed(i)]
         IN  FAdd(poly[1], FMul(r, FSub(poly[2], poly[1])))

\* every round of the proof has passed its sum check and verify has ended
AllRoundsPassed == VerifyEnded /\ v_round = Len(proof.proof_polynomials)

\* C16: final oracle check of verify. When every round of the proof passes
\* its sum check, verify returns true if and only if the expected sum after
\* the last round equals P at the vector of the derived challenges in round
\* order; a proof whose rounds are all self-consistent but whose final
\* expected sum differs from that evaluation is not accepted.
C16_FinalOracleCheck ==
    AllRoundsPassed =>
        LET n == Len(proof.proof_polynomials)
            challenges == [i \in 1 .. n |-> oracle[VerifyAbsorbed(i)]]
        IN  /\ v_random_challenges = challenges
            /\ v_expected_sum = ExpectedAfter(n)
            /\ VerifyAccepted <=>
                   /\ EvaluateDefined(polynomial, challenges)
                   /\ ExpectedAfter(n) = Evaluate(polynomial, challenges)
            /\ EvaluateDefined(polynomial, challenges) => v_pc = "returned"

C16_Witness ==
    /\ AllRoundsPassed
    /\ v_pc = "returned"
    /\ v_result = FALSE
    /\ Len(proof.proof_polynomials) = 2
    /\ v_random_challenges[1] \notin {0, 1}
    /\ v_random_challenges[2] # v_random_challenges[1]
    /\ proof.proof_polynomials[1][1] # proof.proof_polynomials[1][2]

\* C17: verify's round check and its update read different parts of the round
\* vector. A round (of any length MultilinearPoly::new accepts) passes
\* exactly when the sum of all its entries equals the expected sum, while the
\* next expected sum is computed from entries 0 and 1 only; no step of verify
\* checks that a round vector has exactly two entries.
C17_CheckAndUpdateDiffer ==
    [][(/\ v_pc = "loop"
        /\ v_round < Len(proof.proof_polynomials)
        /\ NewAccepts(proof.proof_polynomials[v_round + 1]))
       => LET poly == proof.proof_polynomials[v_round + 1]
          IN  /\ (Len(v_checked') = Len(v_checked) + 1)
                     <=> SumSeq(poly) = v_expected_sum
              /\ ~(v_pc' = "returned" /\ v_result' = FALSE)
                     <=> SumSeq(poly) = v_expected_sum
              /\ v_round' = v_round + 1 =>
                     v_expected_sum' =
                         FAdd(poly[1],
                              FMul(v_random_challenges'[v_round'],
                                   FSub(poly[2], poly[1])))]_vars

C17_Witness ==
    /\ v_pc = "loop"
    /\ v_round >= 1
    /\ Len(proof.proof_polynomials[1]) = 4
    /\ FAdd(proof.proof_polynomials[1][1], proof.proof_polynomials[1][2]) # v_checked[1]
    /\ proof.proof_polynomials[1][1] # proof.proof_polynomials[1][2]
    /\ v_random_challenges[1] \notin {0, 1}

\* C18: gkr_verify's acceptance is prefix-closed. If gkr_verify returns
\* verified = true on round vectors R with claimed sum s and transcript state
\* t, it returns verified = true on every initial part of R with the same s
\* and t, with the matching initial part of the challenges; on the empty
\* round list it returns verified = true, final_claimed_sum = s and no
\* challenges, for every s.
C18_GkrPrefixClosed ==
    /\ (gv_origin = "prefix" /\ GkrVerifyEnded) =>
           /\ GkrVerifyAccepted
           /\ IsPrefix(round_polys, earlier.proof_polynomials)
           /\ gv_result.random_challenges =
                  SubSeq(earlier.random_challenges, 1, Len(round_polys))
    /\ (GkrVerifyEnded /\ round_polys = <<>>) =>
           gv_result = [verified |-> TRUE, final_claimed_sum |-> gv_claimed_arg,
                        random_challenges |-> <<>>]

C18_Witness ==
    /\ gv_origin = "prefix"
    /\ GkrVerifyAccepted
    /\ Len(earlier.proof_polynomials) >= 3
    /\ Len(round_polys) = 2
    /\ gv_result.random_challenges[1] \notin {0, 1}
    /\ round_polys[2] # round_polys[1]
    /\ gv_result.final_claimed_sum # gv_claimed_arg

RECURSIVE AbsorbAll(_, _)
\* the transcript after it has absorbed each of the rounds in turn
AbsorbAll(transcript, rounds) ==
    IF rounds = <<>> THEN transcript
    ELSE AbsorbAll(Append2(transcript, FqVecToBytes(Head(rounds))), Tail(rounds))

\* C19: gkr_prove's claimed_sum argument does not influence the proof. For a
\* fixed composed polynomial and initial transcript state, any two claimed
\* sums give the same proof_polynomials, the same random_challenges and the
\* same final transcript state; the claimed sum is only copied into GkrProof
\* and never absorbed, while prove absorbs the evaluation vector and the
\* claimed sum before its first round.
C19_GkrClaimedSumUnused ==
    /\ (variant = "gkr" /\ earlier.runs = 1 /\ g_pc \in {"loop", "returned"}) =>
           /\ IsPrefix(g_proof_polynomials, earlier.proof_polynomials)
           /\ IsPrefix(g_random_challenges, earlier.random_challenges)
           /\ g_pc = "returned" =>
                  /\ g_proof_polynomials = earlier.proof_polynomials
                  /\ g_random_challenges = earlier.random_challenges
                  /\ g_transcript = earlier.transcript
    /\ g_pc \in {"loop", "returned"} =>
           g_transcript = AbsorbAll(transcript0, g_proof_polynomials)
    /\ (g_pc = "returned" /\ gv_origin = "honest") => gv_claimed_arg = g_claimed_sum
    /\ p_pc \in {"loop", "returned"} =>
           p_transcript =
               AbsorbAll(FqVecToBytes(polynomial) \o FqVecToBytes(<<SumSeq(polynomial)>>),
                         p_proof_polynomials)

C19_Witness ==
    /\ variant = "gkr"
    /\ earlier.runs = 1
    /\ g_pc = "returned"
    /\ g_claimed_sum # earlier.claimed_sum
    /\ g_claimed_sum # TrueSum(composed)
    /\ earlier.claimed_sum # TrueSum(composed)
    /\ Len(g_proof_polynomials) >= 2
    /\ g_random_challenges[1] \notin {0, 1}
    /\ g_proof_polynomials[1] # <<0, 0>>

====
